---- MODULE Spec2Model ----
(***************************************************************************)
(* Model of Notebooks/EM/STEM/4D_STEM.ipynb: the code cells run in         *)
(* document order (Run All), and the button_press_event callback           *)
(* move_zoom_box that the plotting toolkit may dispatch at any time once   *)
(* cell 9 has connected it.  Cells are named by their index in the         *)
(* notebook's cell list (markdown cells included): the code cells are      *)
(* 2, 3, 5, 7, 9, 11, 13, 14, 16, 18, 20, 21, 23, 25, 27 and the empty 28. *)
(***************************************************************************)
EXTENDS Integers, FiniteSets, Sequences, TLC

(* Largest number of scan rows / scan columns of the file that is opened. *)
MaxDim == 3

(* ---------------------------------------------------------------------- *)
(* State                                                                   *)
(* ---------------------------------------------------------------------- *)
VARIABLES
    pos_dim_sizes,   \* <<num_rows, num_cols>> of the Raw_Data dataset of the file
    h5_datasets,     \* names of the datasets present in the file
    h5_file,         \* "unopened", or the mode it is open in ("r+"), or "closed"
    pc,              \* the code cell that Run All executes next (Done after the last)
    fault,           \* 0, or the cell whose exception stopped the run
    bound,           \* notebook-level names that are bound
    fig,             \* the figure the notebook-level name fig refers to ("unbound" if none)
    connected,       \* move_zoom_box is connected to button_press_event (cid)
    main_vert_line,  \* x data of the vertical crosshair line   (-1: not created)
    main_hor_line,   \* y data of the horizontal crosshair line (-1: not created)
    img_zoom,        \* row of h5_main whose ronchigram img_zoom holds (-1: not created)
    coarse_pos,      \* index most recently used to subscript h5_main (-1: none yet)
    h5_main_reads,   \* states of h5_file in which h5_main has been subscripted
    event,           \* the mouse event most recently dispatched to move_zoom_box
    cbResult,        \* how that dispatch ended: "none", "returned", "ok", "fault"
    redrawn          \* figures whose canvas that dispatch redrew

plotVars == <<main_vert_line, main_hor_line, img_zoom>>
cbVars   == <<event, cbResult, redrawn>>
vars == <<pos_dim_sizes, h5_datasets, h5_file, pc, fault, bound, fig, connected,
          main_vert_line, main_hor_line, img_zoom, coarse_pos, h5_main_reads,
          event, cbResult, redrawn>>

num_rows == pos_dim_sizes[1]
num_cols == pos_dim_sizes[2]

(* Number of rows of the flattened (position x pixel) dataset h5_main. *)
NumPositions == num_rows * num_cols

(* ---------------------------------------------------------------------- *)
(* The cells                                                               *)
(* ---------------------------------------------------------------------- *)
(* Document orders a misplaced cell would give. *)
CodeCellsCloseEarly == <<2, 3, 5, 7, 9, 11, 13, 14, 16, 18, 20, 27, 21, 23, 25>>

CodeCellsClusterFirst == <<2, 3, 5, 7, 9, 13, 20, 21, 11, 14, 16, 18, 23, 25, 27>>

CodeCells == <<2, 3, 5, 7, 9, 11, 13, 14, 16, 18, 20, 21, 23, 25, 27>>

(* The empty last cell: Run All has executed every cell above it. *)
Done == 28

CellSet == {CodeCells[i] : i \in 1..Len(CodeCells)}

NextCell(k) ==
    LET i == CHOOSE j \in 1..Len(CodeCells) : CodeCells[j] = k
    IN  IF i = Len(CodeCells) THEN Done ELSE CodeCells[i + 1]

(* Datasets the file must bring with it. *)
InputDatasets == {"Raw_Data", "Spectroscopic_Mean"}

(* Members of the group returned by px.processing.SVD(...).compute(). *)
SVDMembers == {"U", "V", "S"}

(* Members of the group returned by px.processing.Cluster(...).compute(). *)
KMeansMembers == {"Labels", "Mean_Response"}

(* Mode argument of h5py.File in cell 5. *)
OpenMode == "r+"

(* Notebook-level names a cell reads that it does not bind itself. *)
Reads(k) ==
    CASE k = 2  -> {}
      [] k = 3  -> {"sys"}
      [] k = 5  -> {"px", "h5py"}
      [] k = 7  -> {"usid", "h5_file"}
      [] k = 9  -> {"num_rows", "num_cols", "np", "h5_main", "num_sensor_rows",
                    "num_sensor_cols", "plt", "px"}
      [] k = 11 -> {"px", "h5_main"}
      [] k = 13 -> {}
      [] k = 14 -> {"usid", "h5_s"}
      [] k = 16 -> {"np", "h5_u", "num_plot_comps", "num_rows", "num_cols", "usid", "px"}
      [] k = 18 -> {"np", "h5_v", "num_plot_comps", "num_sensor_rows",
                    "num_sensor_cols", "usid", "px"}
      [] k = 20 -> {}
      [] k = 21 -> {"KMeans", "num_clusters", "px", "h5_u", "spectral_components"}
      [] k = 23 -> {"np", "h5_labels", "num_rows", "num_cols", "px", "num_clusters"}
      [] k = 25 -> {"np", "h5_u", "spectral_components", "num_rows", "num_cols", "px",
                    "label_mat", "num_comps_for_clustering", "num_clusters"}
      [] k = 27 -> {"h5_file"}
      [] OTHER  -> {}

(* Notebook-level names a cell has bound when it completes. *)
Binds(k) ==
    CASE k = 2  -> {"sys"}
      [] k = 3  -> {"os", "h5py", "np", "plt", "patches", "display", "HTML",
                    "widgets", "KMeans", "usid", "px"}
      [] k = 5  -> {"h5_path", "h5_file"}
      [] k = 7  -> {"h5_main", "h5_pos_inds", "num_rows", "num_cols", "h5_spec_inds",
                    "num_sensor_rows", "num_sensor_cols"}
      [] k = 9  -> {"coarse_row", "coarse_col", "coarse_pos", "current_ronch", "fig",
                    "axes", "main_map", "main_vert_line", "main_hor_line", "img_zoom",
                    "move_zoom_box", "cid"}
      [] k = 11 -> {"num_svd_comps", "proc", "h5_svd_group", "h5_u", "h5_v", "h5_s"}
      [] k = 13 -> {"num_plot_comps"}
      [] k = 14 -> {"fig", "axes"}
      [] k = 16 -> {"loadings", "fig", "axes"}
      [] k = 18 -> {"eigenvectors", "fig", "axes"}
      [] k = 20 -> {"spectral_components", "num_clusters"}
      [] k = 21 -> {"estimator", "proc", "h5_kmeans_group", "h5_labels", "h5_centroids",
                    "num_comps_for_clustering"}
      [] k = 23 -> {"label_mat", "fig", "axes"}
      [] k = 25 -> {"e_vals", "fig"}
      [] OTHER  -> {}

(* Names a cell has already bound when its library call raises. *)
FaultBinds(k) ==
    CASE k = 5  -> {"h5_path"}
      [] k = 11 -> {"num_svd_comps", "proc"}
      [] k = 16 -> {"loadings"}
      [] k = 18 -> {"eigenvectors"}
      [] k = 21 -> {"estimator", "proc"}
      [] k = 23 -> {"label_mat"}
      [] k = 25 -> {"e_vals"}
      [] OTHER  -> {}

(* Datasets of the file a cell reads (through h5_file, h5_main, h5_u, ...). *)
DatasetReads(k) ==
    CASE k = 7  -> {"Raw_Data"}
      [] k = 9  -> {"Raw_Data", "Spectroscopic_Mean"}
      [] k = 11 -> {"Raw_Data"}
      [] k = 14 -> {"S"}
      [] k = 16 -> {"U"}
      [] k = 18 -> {"V"}
      [] k = 21 -> {"U"}
      [] k = 23 -> {"Labels"}
      [] k = 25 -> {"U"}
      [] OTHER  -> {}

(* The handle is open: datasets of the file can be read. *)
IsOpen == h5_file \in {"r", "r+"}

(* The handle is open in a mode that allows writing into the file. *)
Writable == h5_file = "r+"

(* A cell can run to its end: every name it reads is bound, and every      *)
(* dataset it reads exists in a file that is open.                         *)
CanComplete(k) ==
    /\ Reads(k) \subseteq bound
    /\ DatasetReads(k) # {} => IsOpen /\ DatasetReads(k) \subseteq h5_datasets

(* ---------------------------------------------------------------------- *)
(* Pure helpers of cell 9 and move_zoom_box                                *)
(* ---------------------------------------------------------------------- *)

(* int(round(v)) of Python 3 for v = v2/2: halves go to the even neighbour. *)
Round(v2) ==
    IF v2 % 2 = 0
    THEN v2 \div 2
    ELSE LET lo == (v2 - 1) \div 2
         IN  IF lo % 2 = 0 THEN lo ELSE lo + 1

(* int(0.5*n) for n >= 0. *)
HalfInt(n) == n \div 2

(* coarse_pos = coarse_row * num_rows + coarse_col *)
CoarsePos(row, col) == row * num_rows + col

(* Row of the flattened dataset that the mean-response map, reshaped to    *)
(* (num_rows, num_cols), displays at pixel (row, col).                     *)
MapPos(row, col) == row * num_cols + col

(* h5_main[pos] succeeds: the file is open and pos is a row of the dataset. *)
ReadOK(pos) == IsOpen /\ pos \in 0..(NumPositions - 1)

(* ---------------------------------------------------------------------- *)
(* Initial state: nothing has run.  The file that will be selected has a   *)
(* scan grid of num_rows x num_cols positions and may lack either input    *)
(* dataset.                                                                *)
(* ---------------------------------------------------------------------- *)
NoEvent == [target |-> "init", x2 |-> 0, y2 |-> 0]

Init ==
    /\ pos_dim_sizes \in (1..MaxDim) \X (1..MaxDim)
    /\ h5_datasets \in SUBSET InputDatasets
    /\ h5_file = "unopened"
    /\ pc = CodeCells[1]
    /\ fault = 0
    /\ bound = {}
    /\ fig = "unbound"
    /\ connected = FALSE
    /\ main_vert_line = -1
    /\ main_hor_line = -1
    /\ img_zoom = -1
    /\ coarse_pos = -1
    /\ h5_main_reads = {}
    /\ event = NoEvent
    /\ cbResult = "none"
    /\ redrawn = {}

(* ---------------------------------------------------------------------- *)
(* Running a cell.  No cell has a try/except: an exception ends the cell   *)
(* and Run All stops there.                                                *)
(* ---------------------------------------------------------------------- *)
AtCell(k) == pc = k /\ fault = 0

(* The cell ran to its last statement. *)
Completes(k) ==
    /\ pc' = NextCell(k)
    /\ fault' = 0
    /\ bound' = bound \cup Binds(k)

(* An exception that is swallowed: the run goes on with the next cell. *)
RaisesAndContinues(k, names) ==
    /\ pc' = NextCell(k)
    /\ fault' = 0
    /\ bound' = bound \cup names

(* A statement of the cell raised after the names in `names` were bound. *)
Raises(k, names) ==
    /\ pc' = pc
    /\ fault' = k
    /\ bound' = bound \cup names

(* A cell that calls into a library and touches neither the file's state   *)
(* nor a figure of its own: cells 2 and 3 (install, import).               *)
SetupCell(k) ==
    /\ AtCell(k)
    /\ \E ok \in BOOLEAN :
          IF ok /\ CanComplete(k) THEN Completes(k) ELSE Raises(k, FaultBinds(k))
    /\ UNCHANGED <<h5_file, h5_datasets, pos_dim_sizes, fig, connected, plotVars,
                   coarse_pos, h5_main_reads, cbVars>>

(* A cell of plain assignments: cells 13 and 20. *)
AssignCell(k) ==
    /\ AtCell(k)
    /\ Completes(k)
    /\ UNCHANGED <<h5_file, h5_datasets, pos_dim_sizes, fig, connected, plotVars,
                   coarse_pos, h5_main_reads, cbVars>>

(* A cell that reads results and plots them into a new figure f, which it  *)
(* binds to fig: cells 14, 16, 18, 23, 25.                                 *)
PlotCell(k, f) ==
    /\ AtCell(k)
    /\ \E ok \in BOOLEAN :
          IF ok /\ CanComplete(k)
          THEN Completes(k) /\ fig' = f
          ELSE Raises(k, FaultBinds(k)) /\ fig' = fig
    /\ UNCHANGED <<h5_file, h5_datasets, pos_dim_sizes, connected, plotVars,
                   coarse_pos, h5_main_reads, cbVars>>

Cell2 == SetupCell(2)

Cell3 == SetupCell(3)

(* h5_file = h5py.File(h5_path, mode='r+') *)
Cell5 ==
    /\ AtCell(5)
    /\ \E ok \in BOOLEAN :
          IF ok /\ CanComplete(5)
          THEN Completes(5) /\ h5_file' = OpenMode
          ELSE Raises(5, FaultBinds(5)) /\ h5_file' = h5_file
    /\ UNCHANGED <<h5_datasets, pos_dim_sizes, fig, connected, plotVars,
                   coarse_pos, h5_main_reads, cbVars>>

(* find_dataset(h5_file, 'Raw_Data')[-1], USIDataset, pos_dim_sizes *)
Cell7 ==
    /\ AtCell(7)
    /\ \E ok \in BOOLEAN :
          IF ok /\ CanComplete(7) THEN Completes(7) ELSE Raises(7, FaultBinds(7))
    /\ UNCHANGED <<h5_file, h5_datasets, pos_dim_sizes, fig, connected, plotVars,
                   coarse_pos, h5_main_reads, cbVars>>

(* Cell 9: the initial ronchigram, the two panels, and the callback. *)
Cell9 ==
    /\ AtCell(9)
    /\ IF ~(Reads(9) \subseteq bound)
       THEN /\ Raises(9, {})
            /\ UNCHANGED <<fig, connected, plotVars, coarse_pos, h5_main_reads>>
       ELSE LET row == HalfInt(num_rows)
                col == HalfInt(num_cols)
                pos == CoarsePos(row, col)
            IN  /\ coarse_pos' = pos
                /\ h5_main_reads' = h5_main_reads \cup {h5_file}
                /\ IF ~ReadOK(pos)
                   THEN \* h5_main[coarse_pos] raises at line 184
                        /\ Raises(9, {"coarse_row", "coarse_col", "coarse_pos"})
                        /\ UNCHANGED <<fig, connected, plotVars>>
                   ELSE \E ok \in BOOLEAN :
                        IF ok /\ "Spectroscopic_Mean" \in h5_datasets
                        THEN /\ Completes(9)
                             /\ fig' = "ronch"
                             /\ main_vert_line' = col
                             /\ main_hor_line' = row
                             /\ img_zoom' = pos
                             /\ connected' = TRUE
                        ELSE \* a plotting call raises after plt.subplots
                             /\ Raises(9, {"coarse_row", "coarse_col", "coarse_pos",
                                           "current_ronch", "fig", "axes"})
                             /\ fig' = "ronch"
                             /\ UNCHANGED <<connected, plotVars>>
    /\ UNCHANGED <<h5_file, h5_datasets, pos_dim_sizes, cbVars>>

(* A cell that runs a px.processing routine whose compute() writes a group *)
(* with the given members into the file: cells 11 and 21.                  *)
ComputeCell(k, members) ==
    /\ AtCell(k)
    /\ \E ok \in BOOLEAN :
          IF ok /\ CanComplete(k) /\ Writable
          THEN /\ Completes(k)
               /\ h5_datasets' = h5_datasets \cup members
          ELSE /\ Raises(k, FaultBinds(k))
               /\ \E written \in SUBSET members :
                     /\ written # {} => Writable
                     /\ h5_datasets' = h5_datasets \cup written
    /\ UNCHANGED <<h5_file, pos_dim_sizes, fig, connected, plotVars,
                   coarse_pos, h5_main_reads, cbVars>>

Cell11 == ComputeCell(11, SVDMembers)

Cell13 == AssignCell(13)

Cell14 == PlotCell(14, "scree")

Cell16 == PlotCell(16, "abundance")

Cell18 == PlotCell(18, "endmembers")

Cell20 == AssignCell(20)

Cell21 == ComputeCell(21, KMeansMembers)

Cell23 == PlotCell(23, "labels")

Cell25 == PlotCell(25, "dendrogram")

(* A last cell that leaves the handle as it is. *)
Cell27NoClose ==
    /\ AtCell(27)
    /\ Completes(27)
    /\ UNCHANGED <<h5_file, h5_datasets, pos_dim_sizes, fig, connected, plotVars,
                   coarse_pos, h5_main_reads, cbVars>>

(* h5_file.close() *)
Cell27 ==
    /\ AtCell(27)
    /\ IF CanComplete(27)
       THEN Completes(27) /\ h5_file' = "closed"
       ELSE Raises(27, {}) /\ h5_file' = h5_file
    /\ UNCHANGED <<h5_datasets, pos_dim_sizes, fig, connected, plotVars,
                   coarse_pos, h5_main_reads, cbVars>>

(* Run All: the next cell in document order. *)
RunCell ==
    \/ Cell2 \/ Cell3 \/ Cell5 \/ Cell7 \/ Cell9 \/ Cell11 \/ Cell13 \/ Cell14
    \/ Cell16 \/ Cell18 \/ Cell20 \/ Cell21 \/ Cell23 \/ Cell25 \/ Cell27

(* ---------------------------------------------------------------------- *)
(* The mouse callback                                                      *)
(* ---------------------------------------------------------------------- *)

(* Data coordinates, in halves, along an image axis of n pixels: the two  *)
(* edges -0.5 and n-0.5 of the image extent and the pixel centres 0..n-1. *)
Coords(n) == {-1, 2 * n - 1} \cup {2 * i : i \in 0..(n - 1)}

(* Button presses the canvas of the two-panel figure can deliver.  A press *)
(* inside the mean-response map carries data coordinates x2/2, y2/2 within *)
(* the image extent [-0.5, num_cols-0.5] x [-0.5, num_rows-0.5].           *)
Events ==
    {[target |-> "map", x2 |-> x, y2 |-> y] :
        x \in Coords(num_cols), y \in Coords(num_rows)}
    \cup {[target |-> t, x2 |-> 0, y2 |-> 0] : t \in {"zoom", "outside"}}

(* A test for "inside some axes" instead of "inside the map's axes". *)
InAnyAxes(e) == e.target \in {"map", "zoom"}

(* main_map.axes.in_axes(event) *)
InAxes(e) == e.target = "map"

move_zoom_box(e) ==
    /\ event' = e
    /\ IF ~InAxes(e)
       THEN /\ cbResult' = "returned"
            /\ redrawn' = {}
            /\ UNCHANGED <<plotVars, coarse_pos, h5_main_reads>>
       ELSE LET col == Round(e.x2)
                row == Round(e.y2)
                pos == CoarsePos(row, col)
            IN  /\ main_vert_line' = col
                /\ main_hor_line' = row
                /\ coarse_pos' = pos
                /\ h5_main_reads' = h5_main_reads \cup {h5_file}
                /\ IF ReadOK(pos)
                   THEN /\ img_zoom' = pos
                        /\ redrawn' = {fig}
                        /\ cbResult' = "ok"
                   ELSE \* h5_main[coarse_pos] raises: the rest is skipped
                        /\ img_zoom' = img_zoom
                        /\ redrawn' = {}
                        /\ cbResult' = "fault"
    /\ UNCHANGED <<pos_dim_sizes, h5_datasets, h5_file, pc, fault, bound, fig, connected>>

(* The toolkit's event loop dispatches a button press to the callback. *)
Click ==
    /\ connected
    /\ \E e \in Events : move_zoom_box(e)

Next == RunCell \/ Click

Spec == Init /\ [][Next]_vars

(* Run All does not pause between cells; button presses are up to the user. *)
FairSpec == Spec /\ WF_vars(RunCell)

(* ---------------------------------------------------------------------- *)
(* Properties                                                              *)
(* ---------------------------------------------------------------------- *)

(* A step of the callback: the run's position is untouched. *)
CallbackStep == pc' = pc /\ fault' = fault

(* A step of Run All. *)
CellStep == pc' # pc \/ fault' # fault

(* The cell at pc cannot run to its end in the current state. *)
MustRaise ==
    \/ ~CanComplete(pc)
    \/ pc = 9 /\ ~ReadOK(CoarsePos(HalfInt(num_rows), HalfInt(num_cols)))

(* C1: after cell 9, and after every click inside the map whose handler   *)
(* returns, the zoom panel shows the ronchigram of the scan position      *)
(* (round(y), round(x)) of the num_rows x num_cols map (the centre pixel  *)
(* for the initial display), i.e. the dataset row the map shows there.    *)
C1_ZoomShowsClickedPixel ==
    /\ (connected /\ event = NoEvent) =>
          img_zoom = MapPos(HalfInt(num_rows), HalfInt(num_cols))
    /\ cbResult = "ok" =>
          /\ Round(event.y2) \in 0..(num_rows - 1)
          /\ Round(event.x2) \in 0..(num_cols - 1)
          /\ img_zoom = MapPos(Round(event.y2), Round(event.x2))

(* C2 as stated: whenever the file is open, close() is eventually run.    *)
C2_OpenLeadsToClosed == IsOpen ~> (h5_file = "closed")

(* C2 amended: whenever the file is open, Run All eventually either runs  *)
(* close() or stops at a cell that raised; in the latter case the handle  *)
(* is never closed.                                                       *)
C2_OpenLeadsToClosedOrFault ==
    /\ IsOpen ~> (h5_file = "closed" \/ fault # 0)
    /\ [](fault # 0 => h5_file # "closed")

(* C2 witness: a run that opened the file reached the end and closed it. *)
C2_RunClosedTheFile == pc = Done /\ h5_file = "closed"

(* C3: a step that fails is not caught: a cell that cannot complete ends  *)
(* in a fault naming it and the run stays at it; after a fault no cell is *)
(* retried or run and nothing of the run's state is repaired; a click     *)
(* whose read fails ends as a fault with the zoom image and the canvas    *)
(* left alone and the crosshair where the handler had put it.             *)
C3_FaultsAreNotHandled ==
    [][ /\ (CellStep /\ fault = 0 /\ MustRaise) => (fault' = pc /\ pc' = pc)
        /\ fault # 0 =>
              UNCHANGED <<pc, fault, bound, h5_file, h5_datasets, fig, connected>>
        /\ (CallbackStep /\ event'.target = "map" /\ ~ReadOK(coarse_pos')) =>
              /\ cbResult' = "fault"
              /\ img_zoom' = img_zoom
              /\ redrawn' = {}
              /\ main_vert_line' = Round(event'.x2)
              /\ main_hor_line' = Round(event'.y2)
      ]_vars

(* C3 witness: a click's read failed, and SVD's compute stopped the run. *)
C3_RunStoppedAtFault == fault = 11 /\ cbResult = "fault"

(* C4: when the handle is closed the file holds U, S, V, Labels and       *)
(* Mean_Response, and the file's contents only ever change while the      *)
(* handle is open in a writable mode.                                     *)
C4_ResultsWrittenWhileOpen ==
    /\ [](h5_file = "closed" =>
             {"U", "S", "V", "Labels", "Mean_Response"} \subseteq h5_datasets)
    /\ [][h5_datasets' # h5_datasets => (h5_file = "r+" /\ h5_file' = "r+")]_vars

(* C4 witness: the file was closed with the results of both routines. *)
C4_ClosedWithResults ==
    h5_file = "closed" /\ {"U", "Mean_Response"} \subseteq h5_datasets

(* C5: every click inside the map redraws the canvas of the figure that   *)
(* holds the map and the ronchigram panel.                                *)
C5_ClickRedrawsMapFigure ==
    [][(CallbackStep /\ event'.target = "map") => redrawn' = {"ronch"}]_vars

(* C6: in every state the crosshair and the zoom panel refer to the same  *)
(* pixel: the zoom image is the one read for the crosshair's position.    *)
C6_CrosshairMatchesZoom ==
    connected => img_zoom = CoarsePos(main_hor_line, main_vert_line)

(* C7: the cell about to run reads only names that are bound, reads       *)
(* datasets only of an open file, and reads results only after the cell   *)
(* that produced them.                                                    *)
C7_CellsReadOnlyWhatIsBound ==
    (fault = 0 /\ pc # Done) =>
        /\ Reads(pc) \subseteq bound
        /\ DatasetReads(pc) # {} =>
              /\ h5_file = "r+"
              /\ (DatasetReads(pc) \ InputDatasets) \subseteq h5_datasets

(* C7 witness: the whole sequence ran, the dendrogram cell included. *)
C7_AllCellsRan == pc = Done /\ fault = 0 /\ "e_vals" \in bound

(* C8: a click outside the map's axes moves no line, leaves the zoom      *)
(* image, reads nothing, and redraws nothing.                             *)
C8_OutsideClickChangesNothing ==
    [][(CallbackStep /\ event'.target # "map") =>
          /\ UNCHANGED <<plotVars, coarse_pos, h5_main_reads, h5_datasets, h5_file>>
          /\ redrawn' = {}
      ]_vars

(* C8 witness: a click in the ronchigram panel came after a click that    *)
(* had moved the crosshair off the centre.                                *)
C8_OutsideClickAfterMove ==
    /\ event.target = "zoom"
    /\ cbResult = "returned"
    /\ main_vert_line # HalfInt(num_cols)

(* C9: every index used to subscript h5_main is a row of the dataset. *)
C9_CoarsePosInRange ==
    coarse_pos # -1 => coarse_pos \in 0..(NumPositions - 1)

(* C10: h5_main is never subscripted once the file has been closed. *)
C10_NoReadAfterClose == "closed" \notin h5_main_reads

====
